---- MODULE Spec2Model ----
(***************************************************************************)
(* Model of src/metadata/query.rs: retrieving the runtime metadata by      *)
(* driving a Wasm virtual machine through the `Metadata_metadata` entry    *)
(* point, then removing the SCALE-compact length prefix of its output.     *)
(*                                                                         *)
(* Numbers wider than 31 bits (u64 prefix values, usize) are kept as       *)
(* little-endian sequences of bytes, so that no arithmetic of the model    *)
(* can wrap where the arithmetic of the program does not.                  *)
(***************************************************************************)
EXTENDS Integers, Sequences, FiniteSets, TLC

(***************************************************************************)
(* Bounds of the model.                                                    *)
(***************************************************************************)
\* Longest buffer enumerated byte by byte over ByteVals.
MaxShort == 2
\* Longest run of payload bytes appended to a length prefix of PrefixPool.
MaxTail == 3
\* Largest number of ReadyToRun / LogEmit states a virtual machine reports
\* before it reports a state that ends the call.
MaxSteps == 2

(***************************************************************************)
(* Byte sequences and little-endian numbers.                               *)
(***************************************************************************)
U64Bytes == 8

Zeros(n) == [i \in 1..n |-> 0]

Fill(b, n) == [i \in 1..n |-> b]

\* Drop keeping the byte at index k: the slice starts one byte early.
DropFromLastPrefixByte(s, k) == SubSeq(s, k, Len(s))

\* s[k..] of a 0-based slice: the bytes after the first k
Drop(s, k) == SubSeq(s, k + 1, Len(s))

\* Little-endian digits (base 256) of a natural number below 2^31, on w bytes.
Digits(n, w) ==
    [i \in 1..w |-> CASE i = 1 -> n % 256
                      [] i = 2 -> (n \div 256) % 256
                      [] i = 3 -> (n \div 65536) % 256
                      [] i = 4 -> (n \div 16777216) % 256
                      [] OTHER -> 0]

\* Number of significant bytes of a little-endian number (0 for zero).
SigBytes(d) ==
    IF \A i \in 1..Len(d) : d[i] = 0 THEN 0
    ELSE CHOOSE i \in 1..Len(d) : d[i] # 0 /\ \A j \in (i + 1)..Len(d) : d[j] = 0

\* d + k where k is a small natural; carry[Len(d)] is the carry out.
AddCarry(d, k) ==
    LET c[i \in 0..Len(d)] == IF i = 0 THEN k ELSE (d[i] + c[i - 1]) \div 256
    IN  c

AddDigits(d, k) ==
    LET c == AddCarry(d, k)
    IN  [i \in 1..Len(d) |-> (d[i] + c[i - 1]) % 256]

(***************************************************************************)
(* parity_scale_codec::Compact::<u64>::decode, as called at query.rs:86.   *)
(* The decoder reads the leading byte, whose two low bits select the mode, *)
(* and fails on missing bytes, on a leading byte announcing more than 8    *)
(* value bytes, and on a value written in a wider mode than it requires.   *)
(* Result: [ok, val (the u64, little-endian), used (bytes consumed)].      *)
(***************************************************************************)
DecodeErr == [ok |-> FALSE, val |-> Zeros(U64Bytes), used |-> 0]

DecodeOk(d, n) == [ok |-> TRUE, val |-> d \o Zeros(U64Bytes - Len(d)), used |-> n]

\* Bytes of the encoding announced by a leading byte: 1, 2, 4, or 1 + n.
AnnouncedLen(prefix) ==
    CASE prefix % 4 = 0 -> 1
      [] prefix % 4 = 1 -> 2
      [] prefix % 4 = 2 -> 4
      [] OTHER -> (prefix \div 4) + 5

\* The value bits of an encoding, whatever the mode they are written in.
RawValue(buf) ==
    LET prefix == buf[1] IN
    CASE prefix % 4 = 0 -> <<prefix \div 4>>
      [] prefix % 4 = 1 -> Digits((prefix \div 4) + 64 * buf[2], 2)
      [] prefix % 4 = 2 -> Digits((prefix \div 4) + 64 * buf[2] + 16384 * buf[3]
                                  + 4194304 * buf[4], 4)
      [] OTHER -> SubSeq(buf, 2, AnnouncedLen(prefix))

\* CompactDecode without the range checks: any mode is accepted for any value.
CompactDecodeAnyMode(buf) ==
    IF Len(buf) = 0 \/ AnnouncedLen(buf[1]) > 9 \/ Len(buf) < AnnouncedLen(buf[1])
    THEN DecodeErr
    ELSE DecodeOk(RawValue(buf), AnnouncedLen(buf[1]))

CompactDecode(buf) ==
    IF Len(buf) = 0 THEN DecodeErr
    ELSE LET prefix == buf[1] IN
      CASE prefix % 4 = 0 -> DecodeOk(<<prefix \div 4>>, 1)
        [] prefix % 4 = 1 ->
             IF Len(buf) < 2 THEN DecodeErr
             ELSE LET x == (prefix \div 4) + 64 * buf[2] IN
                  IF x > 63 THEN DecodeOk(Digits(x, 2), 2) ELSE DecodeErr
        [] prefix % 4 = 2 ->
             IF Len(buf) < 4 THEN DecodeErr
             ELSE LET x == (prefix \div 4) + 64 * buf[2] + 16384 * buf[3]
                            + 4194304 * buf[4] IN
                  IF x > 16383 THEN DecodeOk(Digits(x, 4), 4) ELSE DecodeErr
        [] OTHER ->
             LET n == (prefix \div 4) + 4 IN
             IF n > 8 \/ Len(buf) < 1 + n THEN DecodeErr
             ELSE LET d == SubSeq(buf, 2, n + 1) IN
                  IF (n = 4 /\ d[4] >= 64) \/ (n > 4 /\ d[n] >= 1)
                  THEN DecodeOk(d, 1 + n) ELSE DecodeErr

(***************************************************************************)
(* <Compact<u64> as CompactLen<u64>>::compact_len, as called at            *)
(* query.rs:90-93: the length of the canonical encoding of a value.        *)
(***************************************************************************)
CompactLen(val) ==
    IF SigBytes(val) <= 4 /\ val[4] < 64
    THEN LET v == val[1] + 256 * val[2] + 65536 * val[3] + 16777216 * val[4] IN
         IF v <= 63 THEN 1 ELSE IF v <= 16383 THEN 2 ELSE 4
    ELSE SigBytes(val) + 1

(***************************************************************************)
(* remove_length_prefix (query.rs:83-106) on a target whose usize has w    *)
(* bytes.                                                                  *)
(***************************************************************************)
\* UsizeTryFromOrMax as the cast `length.0 as usize`: the high bytes are cut off.
UsizeTruncating(val, w) == SubSeq(val, 1, w)

\* usize::try_from(length.0).unwrap_or(usize::max_value())
UsizeTryFromOrMax(val, w) ==
    IF SigBytes(val) <= w THEN SubSeq(val, 1, w) ELSE Fill(255, w)

\* .checked_add(length_length): ok is FALSE when the sum exceeds usize::MAX
CheckedAdd(d, k) ==
    [ok |-> AddCarry(d, k)[Len(d)] = 0, sum |-> AddDigits(d, k)]

RlpOk(bytes) == [tag |-> "Ok", out |-> bytes]
RlpErr == [tag |-> "Err", out |-> <<>>]
RlpPanic == [tag |-> "Panic", out |-> <<>>]

\* RemoveLengthPrefix without the comparison with metadata.len().
RemoveLengthPrefixUnchecked(metadata, w) ==
    LET length == CompactDecode(metadata) IN
    IF ~length.ok THEN RlpErr
    ELSE LET length_length == CompactLen(length.val) IN
         IF length_length > Len(metadata) THEN RlpPanic
         ELSE RlpOk(Drop(metadata, length_length))

\* RemoveLengthPrefix with the decoding error unwrapped instead of mapped.
RemoveLengthPrefixUnwrap(metadata, w) ==
    LET length == CompactDecode(metadata) IN
    IF ~length.ok THEN RlpPanic
    ELSE LET length_length == CompactLen(length.val)
             sum == CheckedAdd(UsizeTryFromOrMax(length.val, w), length_length)
         IN
         IF ~sum.ok THEN RlpErr
         ELSE IF sum.sum # Digits(Len(metadata), w) THEN RlpErr
         ELSE IF length_length > Len(metadata) THEN RlpPanic
         ELSE RlpOk(Drop(metadata, length_length))

\* RemoveLengthPrefix taking every prefix to be one byte long.
RemoveLengthPrefixOneByte(metadata, w) ==
    LET length == CompactDecode(metadata) IN
    IF ~length.ok THEN RlpErr
    ELSE LET length_length == 1
             sum == CheckedAdd(UsizeTryFromOrMax(length.val, w), length_length)
         IN
         IF ~sum.ok THEN RlpErr
         ELSE IF sum.sum # Digits(Len(metadata), w) THEN RlpErr
         ELSE IF length_length > Len(metadata) THEN RlpPanic
         ELSE RlpOk(Drop(metadata, length_length))

\* RemoveLengthPrefix slicing one byte further: metadata[length_length + 1..].
RemoveLengthPrefixSlicesFurther(metadata, w) ==
    LET length == CompactDecode(metadata) IN
    IF ~length.ok THEN RlpErr
    ELSE LET length_length == CompactLen(length.val)
             sum == CheckedAdd(UsizeTryFromOrMax(length.val, w), length_length)
         IN
         IF ~sum.ok THEN RlpErr
         ELSE IF sum.sum # Digits(Len(metadata), w) THEN RlpErr
         ELSE IF length_length + 1 > Len(metadata) THEN RlpPanic
         ELSE RlpOk(Drop(metadata, length_length + 1))

RemoveLengthPrefix(metadata, w) ==
    LET length == CompactDecode(metadata) IN
    IF ~length.ok THEN RlpErr
    ELSE LET length_length == CompactLen(length.val)
             sum == CheckedAdd(UsizeTryFromOrMax(length.val, w), length_length)
         IN
         IF ~sum.ok THEN RlpErr
         ELSE IF sum.sum # Digits(Len(metadata), w) THEN RlpErr
         ELSE IF length_length > Len(metadata) THEN RlpPanic
         ELSE RlpOk(Drop(metadata, length_length))

(***************************************************************************)
(* Input buffers.  ByteVals holds the bytes that select each mode of the   *)
(* compact encoding (low bits 00, 01, 10, 11), the payload bytes 0x41 and  *)
(* 0x42, and the extreme digits 0 and 255.                                 *)
(***************************************************************************)
ByteVals == {0, 1, 2, 3, 4, 5, 8, 19, 64, 65, 66, 255}

PayloadBytes == {65, 66}

\* n payload bytes b, b+1, b+2, b+3, b, ...: 0x41 0x42 0x43 0x44 0x41 ...
Ramp(b, n) == [i \in 1..n |-> b + ((i - 1) % 4)]

\* Length prefixes of every mode: canonical ones, values written in a wider
\* mode than required, and leading bytes announcing more than 8 value bytes.
PrefixPool ==
    { <<0>>, <<4>>, <<8>>, <<12>>, <<252>>,
      <<1, 1>>, <<5, 1>>, <<253, 255>>, <<1, 0>>, <<5, 0>>, <<253, 0>>,
      <<2, 0, 1, 0>>, <<6, 0, 1, 0>>, <<2, 0, 4, 0>>, <<6, 0, 4, 0>>,
      <<254, 255, 3, 0>>, <<254, 255, 255, 255>>,
      <<2, 0, 0, 0>>, <<6, 0, 0, 0>>, <<254, 255, 0, 0>>,
      <<3, 0, 0, 0, 64>>, <<3, 255, 255, 255, 255>>,
      <<3, 1, 0, 0, 0>>, <<3, 255, 255, 255, 63>>,
      <<7, 0, 0, 0, 0, 1>>, <<7, 1, 0, 0, 0, 1>>, <<7, 1, 0, 0, 0, 0>>,
      <<11, 0, 0, 0, 0, 0, 1>>, <<11, 2, 0, 0, 0, 0, 0>>,
      <<15, 0, 0, 0, 0, 0, 0, 1>>, <<15, 3, 0, 0, 0, 0, 0, 0>>,
      <<19, 0, 0, 0, 0, 0, 0, 0, 1>>, <<19, 1, 0, 0, 0, 0, 0, 0, 0>>,
      <<19, 255, 255, 255, 255, 255, 255, 255, 255>>,
      <<19, 247, 255, 255, 255, 255, 255, 255, 255>>,
      <<23, 0, 0, 0, 0, 0, 0, 0, 0, 1>>, <<255, 1, 1, 1>> }

\* Every buffer of at most MaxShort bytes over ByteVals.
ShortBufs == UNION { [1..n -> ByteVals] : n \in 0..MaxShort }

\* A prefix of the pool, whole or cut short, followed by 0..MaxTail payload bytes.
PrefixedBufs ==
    { SubSeq(p, 1, j) \o Ramp(b, k) :
        <<p, j>> \in { <<q, i>> \in PrefixPool \X (1..10) : i <= Len(q) },
        b \in PayloadBytes, k \in 0..MaxTail }

\* Payloads long enough for the largest single-byte prefix (63), the
\* smallest two-byte prefix (64) and the smallest four-byte prefix (16384):
\* one byte short, exact, one byte long.
LongBufs ==
    { p \o Ramp(65, k) : p \in { <<252>>, <<1, 1>>, <<1, 0>> }, k \in 62..65 }
      \cup { <<2, 0, 1, 0>> \o Ramp(65, k) : k \in 16383..16385 }

Buffers == ShortBufs \cup PrefixedBufs \cup LongBufs

\* Widths of usize, in bytes, of the targets Rust compiles for.
UsizeWidths == {2, 4, 8}

(***************************************************************************)
(* The states executor::State can report (query.rs:53-62).  The last two   *)
(* stand for the externality requests matched by the `_` arm.              *)
(***************************************************************************)
LogMsgs == {"a", "b"}

ReadyToRun == [tag |-> "ReadyToRun", data |-> <<>>, msg |-> ""]
Finished(b) == [tag |-> "Finished", data |-> b, msg |-> ""]
Trapped == [tag |-> "Trapped", data |-> <<>>, msg |-> ""]
LogEmit(m) == [tag |-> "LogEmit", data |-> <<>>, msg |-> m]
External(t) == [tag |-> t, data |-> <<>>, msg |-> ""]
\* Situations of the virtual machine outside of a call: no prototype yet,
\* WasmVmPrototype::new failed, a prototype, run_no_param failed.
NotCreated == [tag |-> "NotCreated", data |-> <<>>, msg |-> ""]
CreateFailed == [tag |-> "CreateFailed", data |-> <<>>, msg |-> ""]
Prototype == [tag |-> "Prototype", data |-> <<>>, msg |-> ""]
StartFailed == [tag |-> "StartFailed", data |-> <<>>, msg |-> ""]
\* No vm.state() was made yet.
NoState == [tag |-> "NoState", data |-> <<>>, msg |-> ""]

ExternalTags == {"ExternalStorageGet", "ExternalStorageSet"}

ContinuingStates == {ReadyToRun} \cup { LogEmit(m) : m \in LogMsgs }

EndingStates ==
    { Finished(b) : b \in Buffers } \cup {Trapped} \cup { External(t) : t \in ExternalTags }

\* The count of continuing states of a runtime that never ends its call.
Forever == -1

\* What the virtual machine may report next, having reported n continuing states.
VmStates(n) ==
    IF n = Forever THEN ContinuingStates
    ELSE IF n < MaxSteps THEN ContinuingStates \cup EndingStates ELSE EndingStates

\* The count of continuing states once the virtual machine has reported s.
Reported(n, s) == IF n # Forever /\ s \in ContinuingStates THEN n + 1 ELSE n

(***************************************************************************)
(* Results (query.rs:47, 68-79).                                           *)
(***************************************************************************)
Pending == [tag |-> "Pending", out |-> <<>>, err |-> "", proto |-> FALSE]
Ok(out, withProto) == [tag |-> "Ok", out |-> out, err |-> "", proto |-> withProto]
Err(e) == [tag |-> "Err", out |-> <<>>, err |-> e, proto |-> FALSE]
Panicked == [tag |-> "Panic", out |-> <<>>, err |-> "", proto |-> FALSE]

RlpNotCalled == [tag |-> "NotCalled", out |-> <<>>]

\* Identities of WasmVmPrototype values; NoProto where there is none.
ProtoIds == {1, 2}
NoProto == 0

VARIABLES
    entry,       \* the public function called: "runtime_code" or "vm_prototype"
    pc,          \* position of the call
    usizeBytes,  \* width of usize on the target
    vmState,     \* the state the virtual machine is in
    observed,    \* the value of the last vm.state()
    steps,       \* continuing states the virtual machine has reported
    trace,       \* operations issued on the virtual machine, in order
    metadata,    \* argument of remove_length_prefix
    ret,         \* return value of remove_length_prefix
    result,      \* return value of metadata_from_virtual_machine_prototype
    codeResult,  \* return value of metadata_from_runtime_code
    protos       \* identities of the prototype passed as parameter, of the one the
                 \* running instance was started from, and of the one returned

vars == <<entry, pc, usizeBytes, vmState, observed, steps, trace, metadata, ret,
          result, codeResult, protos>>

Init ==
    /\ entry \in {"runtime_code", "vm_prototype"}
    /\ pc = IF entry = "runtime_code" THEN "new" ELSE "start"
    /\ usizeBytes \in UsizeWidths
    /\ vmState = IF entry = "runtime_code" THEN NotCreated ELSE Prototype
    /\ observed = NoState
    /\ steps = 0
    /\ trace = <<>>
    /\ metadata = <<>>
    /\ ret = RlpNotCalled
    /\ result = Pending
    /\ codeResult = Pending
    /\ \E p \in ProtoIds :
          protos = [param |-> IF entry = "runtime_code" THEN NoProto ELSE p,
                    instance |-> NoProto, returned |-> NoProto]

\* Where metadata_from_virtual_machine_prototype returns to.
ReturnPc == IF entry = "runtime_code" THEN "returned" ELSE "done"

\* The longest sequence of operations of a call whose virtual machine reports
\* at most MaxSteps continuing states; trace keeps the first MaxTrace operations.
MaxTrace == 2 * MaxSteps + 4

Issue(op) == trace' = IF Len(trace) < MaxTrace THEN Append(trace, op) ELSE trace

\* query.rs:36-37, WasmVmPrototype::new(..).map_err(Error::VmInitialization)?
New ==
    /\ pc = "new"
    /\ Issue("new")
    /\ \/ /\ pc' = "start"
          /\ vmState' = Prototype
          /\ \E p \in ProtoIds : protos' = [protos EXCEPT !.param = p]
          /\ UNCHANGED codeResult
       \/ /\ pc' = "done"
          /\ vmState' = CreateFailed
          /\ codeResult' = Err("VmInitialization")
          /\ UNCHANGED protos
    /\ UNCHANGED <<entry, usizeBytes, observed, steps, metadata, ret, result>>

\* RunNoParam with a failure to start reported as a crash of the runtime.
RunNoParamFailsAsTrapped ==
    /\ pc = "start"
    /\ Issue("run_no_param")
    /\ \/ /\ pc' = "loop"
          /\ \E s \in VmStates(0) :
                /\ vmState' = s
                /\ steps' = Reported(steps, s)
          /\ protos' = [protos EXCEPT !.instance = protos.param]
          /\ UNCHANGED result
       \/ /\ pc' = ReturnPc
          /\ vmState' = StartFailed
          /\ result' = Err("Trapped")
          /\ UNCHANGED <<steps, protos>>
    /\ UNCHANGED <<entry, usizeBytes, observed, metadata, ret, codeResult>>

\* query.rs:48-50, vm.run_no_param("Metadata_metadata").map_err(..)?
RunNoParam ==
    /\ pc = "start"
    /\ Issue("run_no_param")
    /\ \/ /\ pc' = "loop"
          /\ \E s \in VmStates(0) :
                /\ vmState' = s
                /\ steps' = Reported(steps, s)
          /\ protos' = [protos EXCEPT !.instance = protos.param]
          /\ UNCHANGED result
       \/ /\ pc' = ReturnPc
          /\ vmState' = StartFailed
          /\ result' = Err("VmInitialization")
          /\ UNCHANGED <<steps, protos>>
    /\ UNCHANGED <<entry, usizeBytes, observed, metadata, ret, codeResult>>

\* query.rs:53, match vm.state()
ObserveState ==
    /\ pc = "loop"
    /\ Issue("state")
    /\ observed' = vmState
    /\ pc' = "match"
    /\ UNCHANGED <<entry, usizeBytes, protos, vmState, steps, metadata, ret, result, codeResult>>

\* The virtual machine resumes and stops in its next state.
Resume ==
    \E s \in VmStates(steps) :
        /\ vmState' = s
        /\ steps' = Reported(steps, s)

\* ArmReadyToRun advancing the virtual machine twice on one observation.
ArmReadyToRunTwice ==
    /\ pc = "match"
    /\ observed.tag = "ReadyToRun"
    /\ trace' = trace \o <<"run", "run">>
    /\ Resume
    /\ pc' = "loop"
    /\ UNCHANGED <<entry, usizeBytes, protos, observed, metadata, ret, result, codeResult>>

\* ArmReadyToRun without r.run(): the loop observes the same state again.
ArmReadyToRunNoRun ==
    /\ pc = "match"
    /\ observed.tag = "ReadyToRun"
    /\ pc' = "loop"
    /\ UNCHANGED <<entry, usizeBytes, protos, vmState, observed, steps, trace, metadata,
                   ret, result, codeResult>>

\* query.rs:54, State::ReadyToRun(r) => r.run()
ArmReadyToRun ==
    /\ pc = "match"
    /\ observed.tag = "ReadyToRun"
    /\ Issue("run")
    /\ Resume
    /\ pc' = "loop"
    /\ UNCHANGED <<entry, usizeBytes, protos, observed, metadata, ret, result, codeResult>>

\* ArmFinished without the call of remove_length_prefix: the raw output is returned.
ArmFinishedRaw ==
    /\ pc = "match"
    /\ observed.tag = "Finished"
    /\ Issue("into_prototype")
    /\ vmState' = Prototype
    /\ result' = Ok(observed.data, TRUE)
    /\ protos' = [protos EXCEPT !.returned = protos.instance]
    /\ pc' = ReturnPc
    /\ UNCHANGED <<entry, usizeBytes, observed, steps, metadata, ret, codeResult>>

\* ArmFinished falling back to the raw output when the prefix is rejected.
ArmFinishedFallback ==
    /\ pc = "match"
    /\ observed.tag = "Finished"
    /\ metadata' = observed.data
    /\ ret' = RemoveLengthPrefix(observed.data, usizeBytes)
    /\ Issue("into_prototype")
    /\ vmState' = Prototype
    /\ result' = Ok(IF ret'.tag = "Ok" THEN ret'.out ELSE observed.data, TRUE)
    /\ protos' = [protos EXCEPT !.returned = protos.instance]
    /\ pc' = ReturnPc
    /\ UNCHANGED <<entry, usizeBytes, observed, steps, codeResult>>

\* ArmFinished returning another prototype than the one of the instance that ran.
ArmFinishedOtherPrototype ==
    /\ pc = "match"
    /\ observed.tag = "Finished"
    /\ metadata' = observed.data
    /\ ret' = RemoveLengthPrefix(observed.data, usizeBytes)
    /\ CASE ret'.tag = "Ok" -> /\ Issue("into_prototype")
                               /\ vmState' = Prototype
                               /\ result' = Ok(ret'.out, TRUE)
                               /\ protos' = [protos EXCEPT !.returned = CHOOSE p \in ProtoIds : p # protos.instance]
         [] ret'.tag = "Err" -> /\ UNCHANGED <<trace, vmState, protos>>
                                /\ result' = Err("BadLengthPrefix")
         [] OTHER -> /\ UNCHANGED <<trace, vmState, protos>>
                     /\ result' = Panicked
    /\ pc' = ReturnPc
    /\ UNCHANGED <<entry, usizeBytes, observed, steps, codeResult>>

\* query.rs:55 and 65, State::Finished(data) => break remove_length_prefix(data)?
\* then Ok((outcome, vm.into_prototype()))
ArmFinished ==
    /\ pc = "match"
    /\ observed.tag = "Finished"
    /\ metadata' = observed.data
    /\ ret' = RemoveLengthPrefix(observed.data, usizeBytes)
    /\ CASE ret'.tag = "Ok" -> /\ Issue("into_prototype")
                               /\ vmState' = Prototype
                               /\ result' = Ok(ret'.out, TRUE)
                               /\ protos' = [protos EXCEPT !.returned = protos.instance]
         [] ret'.tag = "Err" -> /\ UNCHANGED <<trace, vmState, protos>>
                                /\ result' = Err("BadLengthPrefix")
         [] OTHER -> /\ UNCHANGED <<trace, vmState, protos>>
                     /\ result' = Panicked
    /\ pc' = ReturnPc
    /\ UNCHANGED <<entry, usizeBytes, observed, steps, codeResult>>

\* ArmTrapped with the Trapped arm missing: the state falls into the `_` arm.
ArmTrappedAsOther ==
    /\ pc = "match"
    /\ observed.tag = "Trapped"
    /\ result' = Err("ExternalityNotAllowed")
    /\ pc' = ReturnPc
    /\ UNCHANGED <<entry, usizeBytes, protos, vmState, observed, steps, trace, metadata, ret,
                   codeResult>>

\* query.rs:56, State::Trapped => return Err(Error::Trapped)
ArmTrapped ==
    /\ pc = "match"
    /\ observed.tag = "Trapped"
    /\ result' = Err("Trapped")
    /\ pc' = ReturnPc
    /\ UNCHANGED <<entry, usizeBytes, protos, vmState, observed, steps, trace, metadata, ret,
                   codeResult>>

\* ArmLogEmit with the LogEmit arm missing: the state falls into the `_` arm.
ArmLogEmitAsOther ==
    /\ pc = "match"
    /\ observed.tag = "LogEmit"
    /\ result' = Err("ExternalityNotAllowed")
    /\ pc' = ReturnPc
    /\ UNCHANGED <<entry, usizeBytes, protos, vmState, observed, steps, trace, metadata,
                   ret, codeResult>>

\* ArmLogEmit looking at the log: the message "b" aborts the call.
ArmLogEmitReadsLog ==
    /\ pc = "match"
    /\ observed.tag = "LogEmit"
    /\ IF observed.msg = "b"
       THEN /\ result' = Err("Trapped")
            /\ pc' = ReturnPc
            /\ UNCHANGED <<vmState, steps, trace>>
       ELSE /\ Issue("finish_call")
            /\ Resume
            /\ pc' = "loop"
            /\ UNCHANGED result
    /\ UNCHANGED <<entry, usizeBytes, protos, observed, metadata, ret, codeResult>>

\* query.rs:57, State::LogEmit { resolve, .. } => resolve.finish_call(())
ArmLogEmit ==
    /\ pc = "match"
    /\ observed.tag = "LogEmit"
    /\ Issue("finish_call")
    /\ Resume
    /\ pc' = "loop"
    /\ UNCHANGED <<entry, usizeBytes, protos, observed, metadata, ret, result, codeResult>>

\* ArmOther as a silent no-op: the request is answered and the loop goes on.
ArmOtherContinues ==
    /\ pc = "match"
    /\ observed.tag \notin {"ReadyToRun", "Finished", "Trapped", "LogEmit"}
    /\ Issue("finish_call")
    /\ Resume
    /\ pc' = "loop"
    /\ UNCHANGED <<entry, usizeBytes, protos, observed, metadata, ret, result, codeResult>>

\* query.rs:61, _ => return Err(Error::ExternalityNotAllowed)
ArmOther ==
    /\ pc = "match"
    /\ observed.tag \notin {"ReadyToRun", "Finished", "Trapped", "LogEmit"}
    /\ result' = Err("ExternalityNotAllowed")
    /\ pc' = ReturnPc
    /\ UNCHANGED <<entry, usizeBytes, protos, vmState, observed, steps, trace, metadata, ret,
                   codeResult>>

\* ReturnToRuntimeCode without the `?`: an error of the call gives empty metadata.
ReturnToRuntimeCodeSwallows ==
    /\ pc = "returned"
    /\ codeResult' = Ok(result.out, FALSE)
    /\ pc' = "done"
    /\ UNCHANGED <<entry, usizeBytes, protos, vmState, observed, steps, trace, metadata,
                   ret, result>>

\* query.rs:38-39, let (out, _vm) = metadata_from_virtual_machine_prototype(vm)?; Ok(out)
ReturnToRuntimeCode ==
    /\ pc = "returned"
    /\ codeResult' = IF result.tag = "Ok" THEN Ok(result.out, FALSE) ELSE result
    /\ pc' = "done"
    /\ UNCHANGED <<entry, usizeBytes, protos, vmState, observed, steps, trace, metadata, ret,
                   result>>

Next ==
    \/ New
    \/ RunNoParam
    \/ ObserveState
    \/ ArmReadyToRun
    \/ ArmFinished
    \/ ArmTrapped
    \/ ArmLogEmit
    \/ ArmOther
    \/ ReturnToRuntimeCode

Spec == Init /\ [][Next]_vars

(***************************************************************************)
(* The calls again, now also on a runtime that never ends its call, with   *)
(* the driver always taking its next step: the code is sequential and      *)
(* nothing but the virtual machine can hold it.                            *)
(***************************************************************************)
LiveInit ==
    /\ entry \in {"runtime_code", "vm_prototype"}
    /\ pc = IF entry = "runtime_code" THEN "new" ELSE "start"
    /\ usizeBytes \in UsizeWidths
    /\ vmState = IF entry = "runtime_code" THEN NotCreated ELSE Prototype
    /\ observed = NoState
    /\ steps \in {0, Forever}
    /\ trace = <<>>
    /\ metadata = <<>>
    /\ ret = RlpNotCalled
    /\ result = Pending
    /\ codeResult = Pending
    /\ \E p \in ProtoIds :
          protos = [param |-> IF entry = "runtime_code" THEN NoProto ELSE p,
                    instance |-> NoProto, returned |-> NoProto]

\* The outputs of the runtimes of these calls: the buffers of at most one
\* byte and the two buffers of the example, accepted and rejected ones.
LiveBuffers == { b \in Buffers : Len(b) <= 1 } \cup { <<8, 65, 66>>, <<4, 65, 66>> }

LiveOutput == vmState'.tag = "Finished" => vmState'.data \in LiveBuffers

LiveNext ==
    \/ New /\ LiveOutput
    \/ RunNoParam /\ LiveOutput
    \/ ObserveState /\ LiveOutput
    \/ ArmReadyToRun /\ LiveOutput
    \/ ArmFinished /\ LiveOutput
    \/ ArmTrapped /\ LiveOutput
    \/ ArmLogEmit /\ LiveOutput
    \/ ArmOther /\ LiveOutput
    \/ ReturnToRuntimeCode /\ LiveOutput

SpecLive == LiveInit /\ [][LiveNext]_vars /\ WF_vars(LiveNext)

(***************************************************************************)
(* remove_length_prefix on its own: the buffer is any buffer of Buffers,   *)
(* the target any of UsizeWidths.                                          *)
(***************************************************************************)
CodecInit ==
    /\ entry = "remove_length_prefix"
    /\ pc = "codec"
    /\ usizeBytes \in UsizeWidths
    /\ vmState = NotCreated
    /\ observed = NoState
    /\ steps = 0
    /\ trace = <<>>
    /\ metadata \in Buffers
    /\ ret = RlpNotCalled
    /\ result = Pending
    /\ codeResult = Pending
    /\ protos = [param |-> NoProto, instance |-> NoProto, returned |-> NoProto]

\* query.rs:83-106
CallRemoveLengthPrefix ==
    /\ pc = "codec"
    /\ ret' = RemoveLengthPrefix(metadata, usizeBytes)
    /\ pc' = "done"
    /\ UNCHANGED <<entry, usizeBytes, protos, vmState, observed, steps, trace, metadata, result,
                   codeResult>>

CodecNext == CallRemoveLengthPrefix

SpecCodec == CodecInit /\ [][CodecNext]_vars

(***************************************************************************)
(* Properties.                                                             *)
(***************************************************************************)
Last(s) == s[Len(s)]

Count(s, op) == Cardinality({ i \in 1..Len(s) : s[i] = op })

\* metadata_from_virtual_machine_prototype has returned.
Returned == result # Pending

\* The canonical compact encoding of a length below 2^30.
CompactEncode(n) ==
    IF n <= 63 THEN <<4 * n>>
    ELSE IF n <= 16383 THEN Digits(4 * n + 1, 2)
    ELSE Digits(4 * (n % 268435456) + 2, 3) \o <<n \div 4194304>>

\* b is the canonical compact encoding of n followed by exactly n bytes.
PrefixedWith(b, n) ==
    /\ Len(b) = Len(CompactEncode(n)) + n
    /\ SubSeq(b, 1, Len(CompactEncode(n))) = CompactEncode(n)

WellPrefixed(b) == \E n \in 0..Len(b) : PrefixedWith(b, n)

\* The n bytes after the prefix of a well prefixed buffer.
Payload(b) == LET n == CHOOSE k \in 0..Len(b) : PrefixedWith(b, k)
              IN  SubSeq(b, Len(b) - n + 1, Len(b))

\* C1: once the virtual machine is observed in a state that is none of
\* ReadyToRun, Finished, Trapped, LogEmit, the call returns
\* ExternalityNotAllowed at that observation: every later step leaves the
\* operations issued on the virtual machine and its state (the unresolved
\* request) as they are, and the result is ExternalityNotAllowed.
C1_ExternalityEndsCall ==
    [][observed.tag \in ExternalTags =>
         /\ trace' = trace
         /\ vmState' = vmState
         /\ result' = Err("ExternalityNotAllowed")]_vars

C1_Witness ==
    /\ pc = "done"
    /\ observed.tag \in ExternalTags
    /\ result = Err("ExternalityNotAllowed")
    /\ Count(trace, "run") = 1
    /\ Count(trace, "finish_call") = 1
    /\ Last(trace) = "state"

\* C2: once Trapped is observed, the call returns Error::Trapped and no
\* further operation (run, finish_call, state, into_prototype, run_no_param)
\* is issued on the virtual machine.
C2_TrappedEndsCall ==
    [][observed.tag = "Trapped" =>
         /\ trace' = trace
         /\ vmState' = vmState
         /\ result' = Err("Trapped")]_vars

C2_Witness ==
    /\ pc = "done"
    /\ observed.tag = "Trapped"
    /\ result = Err("Trapped")
    /\ steps = MaxSteps
    /\ Last(trace) = "state"
    /\ Count(trace, "run_no_param") = 1

\* C3: when the virtual machine, after any number of ReadyToRun and LogEmit
\* states, reports Finished(b) with b the canonical compact encoding of n
\* followed by exactly n bytes, the call returns Ok with exactly those n
\* bytes and the virtual machine converted back to a prototype.
C3_FinishedReturnsPayload ==
    (Returned /\ observed.tag = "Finished" /\ WellPrefixed(observed.data)) =>
        /\ result = Ok(Payload(observed.data), TRUE)
        /\ vmState = Prototype
        /\ Last(trace) = "into_prototype"

C3_Witness ==
    /\ pc = "done"
    /\ entry = "vm_prototype"
    /\ Count(trace, "run") = 2
    /\ observed = Finished(<<8, 65, 66>>)
    /\ result = Ok(<<65, 66>>, TRUE)

\* remove_length_prefix has returned (or panicked).
Called == ret # RlpNotCalled

\* C4: round trip of the prefix codec: for every length n and payload p of
\* exactly n bytes, remove_length_prefix of the canonical compact encoding
\* of n followed by p returns Ok(p), byte for byte.
C4_RoundTrip ==
    Called =>
        \A n \in 0..Len(metadata) :
            PrefixedWith(metadata, n) =>
                ret = RlpOk(SubSeq(metadata, Len(metadata) - n + 1, Len(metadata)))

C4_Witness ==
    /\ pc = "done"
    /\ metadata = <<8, 65, 66>>
    /\ ret = RlpOk(<<65, 66>>)

\* The decoded value plus the bytes the decoder consumed, on 9 bytes.
DeclaredTotal(buf) ==
    AddDigits(CompactDecode(buf).val \o <<0>>, CompactDecode(buf).used)

\* C5: a buffer whose prefix decodes but whose decoded value plus the
\* byte length of the prefix differs from the length of the buffer is
\* rejected with BadLengthPrefix; no truncated or padded payload is returned.
C5_MismatchRejected ==
    (/\ Called
     /\ CompactDecode(metadata).ok
     /\ DeclaredTotal(metadata) # Digits(Len(metadata), U64Bytes + 1)) => ret = RlpErr

C5_Witness ==
    /\ pc = "done"
    /\ metadata = <<4, 65, 66>>
    /\ CompactDecode(metadata).ok
    /\ ret = RlpErr

\* C6: a buffer shorter than the encoding its leading byte announces (the
\* empty buffer included) is rejected with BadLengthPrefix, as a value.
C6_ShortBufferRejected ==
    (/\ Called
     /\ (Len(metadata) = 0 \/ Len(metadata) < AnnouncedLen(metadata[1]))) => ret = RlpErr

C6_Witness ==
    /\ pc = "done"
    /\ metadata = <<2, 0, 4>>
    /\ ret = RlpErr

\* The leading bytes hold a value in a wider mode than the value requires.
NonCanonical(buf) ==
    /\ Len(buf) > 0
    /\ AnnouncedLen(buf[1]) <= U64Bytes + 1
    /\ Len(buf) >= AnnouncedLen(buf[1])
    /\ CompactLen(RawValue(buf) \o Zeros(U64Bytes - Len(RawValue(buf)))) < AnnouncedLen(buf[1])

\* C7: a buffer whose leading bytes encode a value in a wider compact mode
\* than the value requires is rejected with BadLengthPrefix, whatever its
\* length.
C7_NonCanonicalRejected ==
    (Called /\ NonCanonical(metadata)) => ret = RlpErr

C7_Witness ==
    /\ pc = "done"
    /\ metadata = <<5, 0>>
    /\ NonCanonical(metadata)
    /\ ret = RlpErr

\* The decoded value does not fit in usize, or adding the length of the
\* prefix to it exceeds usize::MAX.
ExceedsUsize(val, w) ==
    \/ SigBytes(val) > w
    \/ AddCarry(SubSeq(val, 1, w), CompactLen(val))[w] # 0

\* C8: the length check never wraps: when the decoded value does not fit
\* in usize, or the value plus the length of the prefix exceeds usize::MAX,
\* the buffer is rejected with BadLengthPrefix, for every width of usize.
C8_NoWrap ==
    (/\ Called
     /\ CompactDecode(metadata).ok
     /\ ExceedsUsize(CompactDecode(metadata).val, usizeBytes)) => ret = RlpErr

C8_Witness ==
    /\ pc = "done"
    /\ usizeBytes = 2
    /\ metadata = <<2, 0, 4, 0>>
    /\ CompactDecode(metadata).ok
    /\ ret = RlpErr

ErrorKinds == {"VmInitialization", "Trapped", "ExternalityNotAllowed", "BadLengthPrefix"}

\* C9: there is no partial success: a returned call yields either Ok with
\* the validated payload of a well prefixed output and the prototype, or one
\* of the four errors with no bytes and no prototype; when the virtual
\* machine reports Finished(b) and b is not a canonical prefix followed by
\* exactly that many bytes, the result is BadLengthPrefix and
\* into_prototype is never called.
C9_NoPartialSuccess ==
    Returned =>
        /\ \/ /\ result.tag = "Ok"
              /\ result.proto
              /\ observed.tag = "Finished"
              /\ WellPrefixed(observed.data)
              /\ result.out = Payload(observed.data)
           \/ /\ result.tag = "Err"
              /\ result.err \in ErrorKinds
              /\ result.out = <<>>
              /\ ~result.proto
              /\ Count(trace, "into_prototype") = 0
        /\ (observed.tag = "Finished" /\ ~WellPrefixed(observed.data)) =>
              /\ result = Err("BadLengthPrefix")
              /\ Count(trace, "into_prototype") = 0
              /\ vmState = observed

C9_Witness ==
    /\ pc = "done"
    /\ observed = Finished(<<4, 65, 66>>)
    /\ result = Err("BadLengthPrefix")
    /\ Count(trace, "finish_call") = 1
    /\ Last(trace) = "state"

\* C10: a failure of run_no_param ends the call with VmInitialization
\* before any state(), run() or finish_call(); a failure of
\* WasmVmPrototype::new ends metadata_from_runtime_code with
\* VmInitialization before the call is started; new and run_no_param are
\* each invoked at most once in every call.
C10_InitFailureEndsCall ==
    /\ vmState = StartFailed =>
          /\ result = Err("VmInitialization")
          /\ pc \in {"returned", "done"}
          /\ \A i \in 1..Len(trace) : trace[i] \in {"new", "run_no_param"}
          /\ (pc = "done" /\ entry = "runtime_code") => codeResult = Err("VmInitialization")
    /\ vmState = CreateFailed =>
          /\ codeResult = Err("VmInitialization")
          /\ pc = "done"
          /\ result = Pending
          /\ trace = <<"new">>
    /\ Count(trace, "new") <= 1
    /\ Count(trace, "run_no_param") <= 1

C10_Witness ==
    /\ pc = "done"
    /\ entry = "runtime_code"
    /\ vmState = StartFailed
    /\ trace = <<"new", "run_no_param">>
    /\ codeResult = Err("VmInitialization")

\* C11: on success the prototype returned is the one passed as parameter,
\* obtained by into_prototype from the instance started from it; on every
\* error path no prototype is returned.
C11_SamePrototypeReturned ==
    Returned =>
        /\ result.tag = "Ok" =>
              /\ result.proto
              /\ protos.returned # NoProto
              /\ protos.returned = protos.param
              /\ protos.returned = protos.instance
              /\ Count(trace, "into_prototype") = 1
              /\ Count(trace, "new") = (IF entry = "runtime_code" THEN 1 ELSE 0)
        /\ result.tag # "Ok" =>
              /\ ~result.proto
              /\ protos.returned = NoProto
              /\ Count(trace, "into_prototype") = 0

C11_Witness ==
    /\ pc = "done"
    /\ entry = "vm_prototype"
    /\ protos = [param |-> 2, instance |-> 2, returned |-> 2]
    /\ result = Ok(<<65, 66>>, TRUE)
    /\ Last(trace) = "into_prototype"

\* C12: every LogEmit observed is acknowledged exactly once by
\* finish_call(()) and the loop then observes the state again: the step
\* taken on an observed LogEmit issues one finish_call, goes back to the
\* head of the loop and leaves the call without result; finish_call is
\* issued by no other step; the step at the head of the loop is state().
C12_LogEmitAcknowledgedOnce ==
    [][/\ (pc = "match" /\ observed.tag = "LogEmit") =>
              /\ trace' = Append(trace, "finish_call")
              /\ pc' = "loop"
              /\ result' = Pending
              /\ codeResult' = Pending
       /\ Count(trace', "finish_call") # Count(trace, "finish_call") =>
              (pc = "match" /\ observed.tag = "LogEmit")
       /\ pc = "loop" =>
              /\ trace' = Append(trace, "state")
              /\ observed' = vmState
              /\ pc' = "match"]_vars

C12_Witness ==
    /\ pc = "done"
    /\ trace = <<"run_no_param", "state", "finish_call", "state", "finish_call",
                 "state", "into_prototype">>
    /\ result.tag = "Ok"

\* The operations a step issues on the virtual machine.
Issued == SubSeq(trace', Len(trace) + 1, Len(trace'))

\* The last operation was state() and the virtual machine is still in the
\* state it returned.
FreshlyObserved == Len(trace) > 0 /\ Last(trace) = "state" /\ vmState = observed

\* C13: the driver respects the preconditions of the operations of the
\* virtual machine: run() is issued only directly after observing
\* ReadyToRun, finish_call(()) only directly after observing LogEmit,
\* into_prototype() only directly after observing Finished with a valid
\* prefix and once per successful call; a step issues at most one operation
\* and none once the call has returned.
C13_OperationPreconditions ==
    [][/\ Len(trace') >= Len(trace)
       /\ SubSeq(trace', 1, Len(trace)) = trace
       /\ Len(Issued) <= 1
       /\ Returned => Issued = <<>>
       /\ Issued = <<"run">> => (FreshlyObserved /\ observed = ReadyToRun)
       /\ Issued = <<"finish_call">> => (FreshlyObserved /\ observed.tag = "LogEmit")
       /\ Issued = <<"into_prototype">> =>
              /\ FreshlyObserved
              /\ observed.tag = "Finished"
              /\ WellPrefixed(observed.data)
              /\ Count(trace, "into_prototype") = 0
              /\ result'.tag = "Ok"
       /\ (result.tag # "Ok" /\ result'.tag = "Ok") => Issued = <<"into_prototype">>]_vars

C13_Witness ==
    /\ pc = "done"
    /\ trace = <<"run_no_param", "state", "run", "state", "finish_call",
                 "state", "into_prototype">>
    /\ result.tag = "Ok"
    /\ vmState = Prototype

\* The virtual machine runs a runtime that never ends its call.
Looping == steps = Forever /\ vmState \in ContinuingStates

\* The call of the public function has returned.
Done == pc = "done"

\* C14: the loop ends exactly when the executed code does: with a virtual
\* machine that reports an ending state after at most MaxSteps continuing
\* ones the call eventually returns; with one that reports ReadyToRun or
\* LogEmit forever the call never returns and the driver keeps observing
\* and advancing it.
C14_TerminatesWithTheCode ==
    /\ [](steps # Forever => <>Done)
    /\ [](Looping => (~Done /\ result = Pending /\ codeResult = Pending))
    /\ [](Looping => <>(pc = "match"))
    /\ [](Looping => <>(pc = "loop"))

C14_Witness ==
    /\ Looping
    /\ pc = "match"
    /\ Len(trace) = MaxTrace
    /\ result = Pending

\* C15: the prefix length remove_length_prefix uses, compact_len of the
\* decoded value, is the number of bytes the decoder consumed; an accepted
\* buffer is returned from the byte where the decoded prefix ends, and the
\* length of what is returned is the decoded value.
C15_StrippedIsConsumed ==
    (Called /\ CompactDecode(metadata).ok) =>
        /\ CompactLen(CompactDecode(metadata).val) = CompactDecode(metadata).used
        /\ ret.tag = "Ok" =>
              /\ ret.out = SubSeq(metadata, CompactDecode(metadata).used + 1, Len(metadata))
              /\ Len(metadata) - Len(ret.out) = CompactDecode(metadata).used
              /\ Digits(Len(ret.out), U64Bytes) = CompactDecode(metadata).val

C15_Witness ==
    /\ pc = "done"
    /\ metadata = <<1, 1>> \o Ramp(65, 64)
    /\ CompactDecode(metadata).used = 2
    /\ ret = RlpOk(Ramp(65, 64))

\* A result without its prototype: the kind, the bytes, the error.
Strip(r) == [tag |-> r.tag, out |-> r.out, err |-> r.err]

\* C16: metadata_from_runtime_code is a shortcut: whenever
\* WasmVmPrototype::new succeeds, it makes one call of
\* metadata_from_virtual_machine_prototype on the created prototype and
\* returns exactly its metadata bytes or exactly its error, without the
\* prototype.
C16_RuntimeCodeIsShortcut ==
    (entry = "runtime_code" /\ Done /\ vmState # CreateFailed) =>
        /\ Returned
        /\ Strip(codeResult) = Strip(result)
        /\ ~codeResult.proto
        /\ protos.param # NoProto
        /\ protos.instance \in {NoProto, protos.param}
        /\ SubSeq(trace, 1, 2) = <<"new", "run_no_param">>
        /\ Count(trace, "new") = 1
        /\ Count(trace, "run_no_param") = 1

C16_Witness ==
    /\ entry = "runtime_code"
    /\ Done
    /\ observed.tag = "Trapped"
    /\ result = Err("Trapped")
    /\ codeResult = Err("Trapped")

\* What a call returns on the state that ends it, whatever preceded it.
Outcome(s) ==
    CASE s.tag = "Finished" ->
           IF WellPrefixed(s.data) THEN Strip(Ok(Payload(s.data), TRUE))
           ELSE Strip(Err("BadLengthPrefix"))
      [] s.tag = "Trapped" -> Strip(Err("Trapped"))
      [] s.tag \in ExternalTags -> Strip(Err("ExternalityNotAllowed"))
      [] OTHER -> Strip(Pending)

\* C17: the result is determined by the first observed state that is
\* neither ReadyToRun nor LogEmit: a returned call that was started has
\* observed such a state last, every earlier observation was answered by
\* run or finish_call, and the result is a function of that state alone;
\* the number and order of the earlier states and the content of the logs
\* do not enter it.
C17_ResultFromEndingStateOnly ==
    (Returned /\ vmState # StartFailed) =>
        /\ observed \notin ContinuingStates
        /\ Strip(result) = Outcome(observed)
        /\ Count(trace, "state") = Count(trace, "run") + Count(trace, "finish_call") + 1

C17_Witness ==
    /\ Done
    /\ Count(trace, "run") = 1
    /\ Count(trace, "finish_call") = 1
    /\ observed = Finished(<<8, 65, 66>>)
    /\ Strip(result) = Outcome(Finished(<<8, 65, 66>>))

\* C18: remove_length_prefix never panics: it returns Ok or
\* Err(BadLengthPrefix) on every buffer, and whenever it returns Ok the
\* index of the slice, compact_len of the decoded value, is at most the
\* length of the buffer and, with the decoded value, adds up to it.
C18_NoPanic ==
    Called =>
        /\ ret.tag \in {"Ok", "Err"}
        /\ ret.tag = "Err" => ret = RlpErr
        /\ ret.tag = "Ok" =>
              /\ CompactDecode(metadata).ok
              /\ CompactLen(CompactDecode(metadata).val) <= Len(metadata)
              /\ AddDigits(CompactDecode(metadata).val,
                           CompactLen(CompactDecode(metadata).val))
                   = Digits(Len(metadata), U64Bytes)

C18_Witness ==
    /\ pc = "done"
    /\ metadata = <<0>>
    /\ CompactLen(CompactDecode(metadata).val) = Len(metadata)
    /\ ret = RlpOk(<<>>)

====
